---- MODULE Spec2Model ----
(***************************************************************************)
(* Model of the grading pipeline of                                        *)
(* examples/batch-processing/student-grading-automation.py                 *)
(* (class StudentGradingPipeline): discovery, the worker pool that runs    *)
(* detection and grading per submission, and report synthesis.             *)
(*                                                                         *)
(* Numbers.  The code computes with floats.  The model is exact: a         *)
(* confidence is an integer number of hundredths (0.3 is 30), a criterion  *)
(* score is an integer number of 1/Scale points (85 is 85 * Scale), and an *)
(* overall score is a fraction [num, den]; float rounding is not modelled. *)
(***************************************************************************)
EXTENDS Integers, Sequences, FiniteSets, TLC

\* Student directories under the submissions root.
MaxSubs == 2
\* The values of processing.parallel_workers the model draws: one worker
\* after the other, and two at a time.
WorkerCounts == {1, 2}

Scale == 100 * 100

----------------------------------------------------------------------------
(* Data                                                                    *)

\* Optional[...] = None
None == [present |-> FALSE]

\* calculate_grade: the fixed rubric base scores
base_scores ==
    [correctness |-> 85, code_quality |-> 78, documentation |-> 90,
     testing |-> 75, creativity |-> 80]

\* _load_config: default_config["grading"]["criteria"]
DefaultCriteria ==
    [correctness |-> 40, code_quality |-> 25, documentation |-> 15,
     testing |-> 10, creativity |-> 10]

\* A weight table whose weights sum to zero.
ZeroCriteria ==
    [correctness |-> 0, code_quality |-> 0, documentation |-> 0,
     testing |-> 0, creativity |-> 0]

\* A weight table that omits rubric criteria and names one the rubric lacks.
PartialCriteria == [correctness |-> 3, code_quality |-> 1, style |-> 4]

\* A weight table whose weights sum to more than 100.
HeavyCriteria ==
    [correctness |-> 80, code_quality |-> 50, documentation |-> 30,
     testing |-> 20, creativity |-> 20]

\* _load_config: the configuration values the pipeline reads
MakeConfig(en, fail, lp, crit, workers, fb, sm, cs) ==
    [enabled |-> en, fail_on_detection |-> fail, late_penalty |-> lp,
     criteria |-> crit, parallel_workers |-> workers,
     individual_feedback |-> fb, summary_report |-> sm, csv_export |-> cs]

\* The output section: every report enabled, or one of them disabled.
OutputChoices ==
    { <<TRUE, TRUE, TRUE>>, <<FALSE, TRUE, TRUE>>,
      <<TRUE, FALSE, TRUE>>, <<TRUE, TRUE, FALSE>> }

\* Resolved configurations of a pipeline run.  parallel_workers is at least
\* 1: ThreadPoolExecutor rejects any other value before a task is created.
PipelineConfigs ==
    { MakeConfig(en, fail, 10, crit, w, out[1], out[2], out[3]) :
        en \in BOOLEAN, fail \in BOOLEAN,
        crit \in {DefaultCriteria, ZeroCriteria},
        w \in WorkerCounts,
        out \in OutputChoices }

\* StudentSubmission
Submission(id, late) == [student_id |-> id, late_submission |-> late]

\* The scratch file /tmp/ai-detection-<student_id>.json
NoFile == [exists |-> FALSE]
Garbage == [exists |-> TRUE, parses |-> FALSE]
Report(flagged, conf) ==
    [exists |-> TRUE, parses |-> TRUE,
     isAIGenerated |-> flagged, confidenceScore |-> conf]

\* Reports the detector writes during a pipeline run.
PipelineReports == { Report(TRUE, 95), Report(FALSE, 30) }
\* A report left behind by an earlier run.
StaleReport == Report(TRUE, 85)

----------------------------------------------------------------------------
(* Pure functions                                                          *)

RECURSIVE SumOver(_, _)
SumOver(f, S) ==
    IF S = {} THEN 0
    ELSE LET x == CHOOSE y \in S : TRUE
         IN f[x] + SumOver(f, S \ {x})

Min(a, b) == IF a <= b THEN a ELSE b

\* The comparison with > instead of >=
ScoreGE_Strict(score, k) == score.num > k * score.den

\* score >= k for a score [num, den], den > 0
ScoreGE(score, k) == score.num >= k * score.den

\* _score_to_letter_grade
score_to_letter_grade(score) ==
    IF ScoreGE(score, 97) THEN "A+"
    ELSE IF ScoreGE(score, 93) THEN "A"
    ELSE IF ScoreGE(score, 90) THEN "A-"
    ELSE IF ScoreGE(score, 87) THEN "B+"
    ELSE IF ScoreGE(score, 83) THEN "B"
    ELSE IF ScoreGE(score, 80) THEN "B-"
    ELSE IF ScoreGE(score, 77) THEN "C+"
    ELSE IF ScoreGE(score, 73) THEN "C"
    ELSE IF ScoreGE(score, 70) THEN "C-"
    ELSE IF ScoreGE(score, 67) THEN "D+"
    ELSE IF ScoreGE(score, 63) THEN "D"
    ELSE IF ScoreGE(score, 60) THEN "D-"
    ELSE "F"

\* The thresholds compared with > instead of >=
RiskLevel_Strict(conf) ==
    IF conf > 90 THEN "CRITICAL"
    ELSE IF conf > 80 THEN "HIGH"
    ELSE IF conf > 60 THEN "MEDIUM"
    ELSE "LOW"

\* run_ai_detection: risk level from the confidence thresholds
RiskLevel(conf) ==
    IF conf >= 90 THEN "CRITICAL"
    ELSE IF conf >= 80 THEN "HIGH"
    ELSE IF conf >= 60 THEN "MEDIUM"
    ELSE "LOW"

\* run_ai_detection: the AIDetectionResult built from a parsed report
AIDetectionResult(file) ==
    [present |-> TRUE,
     is_ai_generated |-> file.isAIGenerated,
     confidence_score |-> file.confidenceScore,
     risk_level |-> RiskLevel(file.confidenceScore)]

\* run_ai_detection without its "except subprocess.TimeoutExpired" clause
run_ai_detection_TimeoutRaises(cfg, outcome, file) ==
    IF ~cfg.enabled THEN [raised |-> FALSE, value |-> None]
    ELSE IF outcome = "timeout" THEN [raised |-> TRUE, value |-> None]
    ELSE IF ~file.exists THEN [raised |-> FALSE, value |-> None]
    ELSE IF ~file.parses THEN [raised |-> FALSE, value |-> None]
    ELSE [raised |-> FALSE, value |-> AIDetectionResult(file)]

\* run_ai_detection without the check of ai_detection.enabled
run_ai_detection_NoEnabledCheck(cfg, outcome, file) ==
    IF outcome = "timeout" THEN [raised |-> FALSE, value |-> None]
    ELSE IF ~file.exists THEN [raised |-> FALSE, value |-> None]
    ELSE IF ~file.parses THEN [raised |-> FALSE, value |-> None]
    ELSE [raised |-> FALSE, value |-> AIDetectionResult(file)]

\* run_ai_detection, after the detector process has ended: outcome is
\* "timeout" (subprocess.run raised), or "returned"; file is the scratch file
\* as it is then.  raised: an exception leaves run_ai_detection.
run_ai_detection(cfg, outcome, file) ==
    IF ~cfg.enabled THEN [raised |-> FALSE, value |-> None]
    ELSE IF outcome = "timeout" THEN [raised |-> FALSE, value |-> None]
    ELSE IF ~file.exists THEN [raised |-> FALSE, value |-> None]
    ELSE IF ~file.parses THEN [raised |-> FALSE, value |-> None]
    ELSE [raised |-> FALSE, value |-> AIDetectionResult(file)]

\* The detection penalty that ignores fail_on_detection
DetectionFactor_NoAutoFail(cfg, ai) ==
    IF ai.present /\ ai.is_ai_generated
    THEN 100 - Min(50, ai.confidence_score)
    ELSE 100

\* The detection penalty without its cap of 0.5
DetectionFactor_Uncapped(cfg, ai) ==
    IF ai.present /\ ai.is_ai_generated
    THEN IF cfg.fail_on_detection THEN 0
         ELSE 100 - ai.confidence_score
    ELSE 100

\* The detection penalty applied from a confidence of 0.75 on, whatever the
\* detector's verdict
DetectionFactor_ByConfidence(cfg, ai) ==
    IF ai.present /\ (ai.is_ai_generated \/ ai.confidence_score >= 75)
    THEN IF cfg.fail_on_detection THEN 0
         ELSE 100 - Min(50, ai.confidence_score)
    ELSE 100

\* calculate_grade: the detection penalty factor, in hundredths
DetectionFactor(cfg, ai) ==
    IF ai.present /\ ai.is_ai_generated
    THEN IF cfg.fail_on_detection THEN 0
         ELSE 100 - Min(50, ai.confidence_score)
    ELSE 100

\* The late penalty with its sign flipped: (1 + penalty)
LateFactor_Added(cfg, sub) ==
    IF sub.late_submission THEN 100 + cfg.late_penalty ELSE 100

\* calculate_grade: the late penalty factor, in hundredths
LateFactor(cfg, sub) ==
    IF sub.late_submission THEN 100 - cfg.late_penalty ELSE 100

\* calculate_grade: the criterion scores after both penalties
PenalizedScores(cfg, sub, ai) ==
    [c \in DOMAIN base_scores |->
        base_scores[c] * DetectionFactor(cfg, ai) * LateFactor(cfg, sub)]

\* calculate_grade: sum(criteria_weights.values())
TotalWeight(cfg) == SumOver(cfg.criteria, DOMAIN cfg.criteria)

\* The weighted score normalised by the weights of the scored criteria only
OverallScore_ScoredWeightsOnly(cfg, scores) ==
    LET weighted == [c \in DOMAIN scores |->
                        scores[c] * (IF c \in DOMAIN cfg.criteria
                                     THEN cfg.criteria[c] ELSE 0)]
    IN [num |-> SumOver(weighted, DOMAIN scores),
        den |-> Scale * SumOver(cfg.criteria,
                                DOMAIN cfg.criteria \cap DOMAIN scores)]

\* calculate_grade: the weighted overall score
OverallScore(cfg, scores) ==
    LET weighted == [c \in DOMAIN scores |->
                        scores[c] * (IF c \in DOMAIN cfg.criteria
                                     THEN cfg.criteria[c] ELSE 0)]
    IN [num |-> SumOver(weighted, DOMAIN scores),
        den |-> Scale * TotalWeight(cfg)]

\* _generate_feedback: the parts of the text that depend on the inputs
generate_feedback(sub, ai, overall) ==
    [kind |-> "graded",
     integrity_alert |-> ai.present /\ ai.is_ai_generated,
     integrity_passed |-> ai.present /\ ~ai.is_ai_generated,
     late_note |-> sub.late_submission,
     recommendation |->
        IF ScoreGE(overall, 90) THEN "excellent"
        ELSE IF ScoreGE(overall, 80) THEN "good"
        ELSE IF ScoreGE(overall, 70) THEN "passing"
        ELSE "below_passing"]

\* A division by a zero weight sum that raises nothing
GradeRaises_Never(cfg) == FALSE

\* calculate_grade raises ZeroDivisionError when the weights sum to zero
GradeRaises(cfg) == TotalWeight(cfg) = 0

\* calculate_grade that flags every submission with a detection result
calculate_grade_FlagsAnyDetection(cfg, sub, ai) ==
    LET scores == PenalizedScores(cfg, sub, ai)
        overall == OverallScore(cfg, scores)
    IN [student_id |-> sub.student_id,
        ai_detection |-> ai,
        overall_score |-> overall,
        grade_letter |-> score_to_letter_grade(overall),
        criteria_scores |-> scores,
        feedback |-> generate_feedback(sub, ai, overall),
        requires_manual_review |-> ai.present,
        academic_integrity_flag |-> ai.present]

\* calculate_grade that sets the integrity flag and forgets the review flag
calculate_grade_FlagOnly(cfg, sub, ai) ==
    LET flagged == ai.present /\ ai.is_ai_generated
        scores == PenalizedScores(cfg, sub, ai)
        overall == OverallScore(cfg, scores)
    IN [student_id |-> sub.student_id,
        ai_detection |-> ai,
        overall_score |-> overall,
        grade_letter |-> score_to_letter_grade(overall),
        criteria_scores |-> scores,
        feedback |-> generate_feedback(sub, ai, overall),
        requires_manual_review |-> FALSE,
        academic_integrity_flag |-> flagged]

\* calculate_grade, when it returns
calculate_grade(cfg, sub, ai) ==
    LET flagged == ai.present /\ ai.is_ai_generated
        scores == PenalizedScores(cfg, sub, ai)
        overall == OverallScore(cfg, scores)
    IN [student_id |-> sub.student_id,
        ai_detection |-> ai,
        overall_score |-> overall,
        grade_letter |-> score_to_letter_grade(overall),
        criteria_scores |-> scores,
        feedback |-> generate_feedback(sub, ai, overall),
        requires_manual_review |-> flagged,
        academic_integrity_flag |-> flagged]

\* The default failing grade without the request for a manual review
FailingResult_NoReview(sub) ==
    [student_id |-> sub.student_id,
     ai_detection |-> None,
     overall_score |-> [num |-> 0, den |-> 1],
     grade_letter |-> "F",
     criteria_scores |-> [c \in {} |-> 0],
     feedback |-> [kind |-> "processing_failed"],
     requires_manual_review |-> FALSE,
     academic_integrity_flag |-> FALSE]

\* process_submission: the default failing grade of the except branch
FailingResult(sub) ==
    [student_id |-> sub.student_id,
     ai_detection |-> None,
     overall_score |-> [num |-> 0, den |-> 1],
     grade_letter |-> "F",
     criteria_scores |-> [c \in {} |-> 0],
     feedback |-> [kind |-> "processing_failed"],
     requires_manual_review |-> TRUE,
     academic_integrity_flag |-> FALSE]

\* process_submission whose failing grade keeps the detection result and its
\* flag
process_submission_KeepsDetection(cfg, sub, det, fault) ==
    IF det.raised \/ fault \/ GradeRaises(cfg)
    THEN [raised |-> FALSE, failed |-> TRUE,
          value |-> [FailingResult(sub) EXCEPT
                        !.ai_detection = det.value,
                        !.academic_integrity_flag =
                            det.value.present /\ det.value.is_ai_generated]]
    ELSE [raised |-> FALSE, failed |-> FALSE,
          value |-> calculate_grade(cfg, sub, det.value)]

\* process_submission without its try/except: the exception reaches the future
process_submission_NoExcept(cfg, sub, det, fault) ==
    IF det.raised \/ fault \/ GradeRaises(cfg)
    THEN [raised |-> TRUE, failed |-> TRUE, value |-> None]
    ELSE [raised |-> FALSE, failed |-> FALSE,
          value |-> calculate_grade(cfg, sub, det.value)]

\* process_submission, from the end of detection on: det is what
\* run_ai_detection did, fault says that calculate_grade raises an unexpected
\* exception for this submission (for instance OverflowError on a
\* confidenceScore that is a huge negative integer, or MemoryError).
\* raised: an exception leaves process_submission.
process_submission(cfg, sub, det, fault) ==
    IF det.raised \/ fault \/ GradeRaises(cfg)
    THEN [raised |-> FALSE, failed |-> TRUE, value |-> FailingResult(sub)]
    ELSE [raised |-> FALSE, failed |-> FALSE,
          value |-> calculate_grade(cfg, sub, det.value)]

----------------------------------------------------------------------------
(* State                                                                   *)

VARIABLES
    pc,            \* where run_pipeline is
    exit,          \* how run_pipeline ended
    rootExists,    \* the submissions directory exists
    hasCode,       \* per student directory: it contains a code file
    config,        \* self.config
    submissions,   \* self.submissions
    st,            \* per submission: the state of its task
    outcome,       \* per submission: how its detector invocation ended
    scratch,       \* per submission: its scratch file
    invoked,       \* per submission: detector invocations so far
    det,           \* per submission: what run_ai_detection returned
    gradeCalls,    \* per submission: calls of calculate_grade so far
    fut,           \* per submission: what its future holds
    collected,     \* futures as_completed has yielded
    results,       \* the results list of process_all_submissions
    called,        \* report generators called so far
    feedbackFiles, \* student ids that have a feedback file
    summary,       \* grading_summary.md
    csv,           \* grades.csv
    integrity,     \* academic_integrity_report.md
    ioFault,       \* a write to the output directories has failed
    gradeIn,       \* inputs of a single process_submission call
    gradeOut,      \* its result
    fnIn,          \* inputs of a single call of a function of the pipeline
    fnOut          \* its result

vars ==
    <<pc, exit, rootExists, hasCode, config, submissions, st, outcome,
      scratch, invoked, det, gradeCalls, fut, collected, results, called, feedbackFiles,
      summary, csv, integrity, ioFault, gradeIn, gradeOut, fnIn, fnOut>>

taskVars == <<st, outcome, scratch, invoked, det, gradeCalls, fut>>
reportVars == <<called, feedbackFiles, summary, csv, integrity, ioFault>>
fsVars == <<rootExists, hasCode, config>>
probeVars == <<gradeIn, gradeOut, fnIn, fnOut>>

Dirs == 1..MaxSubs

NoProbe == [probe |-> FALSE]
NoFuture == [set |-> FALSE]
NotWritten == [written |-> FALSE]

IdsOf(seq) == { seq[i].student_id : i \in 1..Len(seq) }

\* The submission with student id s.
SubOf(s) == Submission(s, FALSE)

RECURSIVE Ascending(_)
Ascending(S) ==
    IF S = {} THEN << >>
    ELSE LET m == CHOOSE x \in S : \A y \in S : x <= y
         IN <<m>> \o Ascending(S \ {m})

\* _is_late_submission (a placeholder that answers False)
is_late_submission == FALSE

\* discover_submissions, when the directory exists: one submission per
\* student directory that holds a code file
discover_submissions(codeDirs) ==
    LET ids == Ascending({ d \in Dirs : codeDirs[d] })
    IN [i \in 1..Len(ids) |-> Submission(ids[i], is_late_submission)]

Init ==
    /\ pc = "start"
    /\ exit = "running"
    /\ rootExists \in BOOLEAN
    /\ \E n \in 0..MaxSubs : hasCode = [d \in Dirs |-> d <= n]
    /\ ~rootExists => hasCode = [d \in Dirs |-> FALSE]
    /\ config \in PipelineConfigs
    /\ submissions = << >>
    /\ st = [d \in Dirs |-> "NoTask"]
    /\ outcome = [d \in Dirs |-> "none"]
    /\ \E stale \in BOOLEAN :
          scratch = [d \in Dirs |-> IF stale THEN StaleReport ELSE NoFile]
    /\ invoked = [d \in Dirs |-> 0]
    /\ det = [d \in Dirs |-> None]
    /\ gradeCalls = [d \in Dirs |-> 0]
    /\ fut = [d \in Dirs |-> NoFuture]
    /\ collected = {}
    /\ results = << >>
    /\ called = {}
    /\ feedbackFiles = {}
    /\ summary = NotWritten
    /\ csv = NotWritten
    /\ integrity = NotWritten
    /\ ioFault = FALSE
    /\ gradeIn = NoProbe
    /\ gradeOut = NoProbe
    /\ fnIn = NoProbe
    /\ fnOut = NoProbe

----------------------------------------------------------------------------
(* run_pipeline: discovery                                                 *)

\* run_pipeline without the "if not self.submissions: return"
AfterDiscovery_NoEmptyCheck(found) ==
    /\ pc' = "collect"
    /\ exit' = exit
    /\ st' = [d \in Dirs |->
                IF d \in IdsOf(found) THEN "Discovered" ELSE st[d]]

\* run_pipeline: after discovery, return when nothing was found, else hand
\* every submission to the executor of process_all_submissions
AfterDiscovery(found) ==
    IF Len(found) = 0
    THEN /\ pc' = "done"
         /\ exit' = "no_submissions"
         /\ UNCHANGED st
    ELSE /\ pc' = "collect"
         /\ exit' = exit
         /\ st' = [d \in Dirs |->
                     IF d \in IdsOf(found) THEN "Discovered" ELSE st[d]]

\* run_pipeline up to the call of process_all_submissions
Discover ==
    /\ pc = "start"
    /\ IF ~rootExists
       THEN /\ pc' = "done"
            /\ exit' = "raised"
            /\ UNCHANGED <<submissions, st>>
       ELSE LET found == discover_submissions(hasCode)
            IN /\ submissions' = found
               /\ AfterDiscovery(found)
    /\ UNCHANGED <<outcome, scratch, invoked, det, gradeCalls, fut>>
    /\ UNCHANGED <<collected, results>>
    /\ UNCHANGED <<reportVars, fsVars, probeVars>>

----------------------------------------------------------------------------
(* process_all_submissions: the worker pool                                *)

Active == { d \in Dirs : st[d] \in {"Detecting", "Grading"} }
Terminal == { d \in Dirs : st[d] \in {"Completed", "Failed"} }

\* A pool that starts a thread per submitted task, whatever max_workers is.
Start_Unbounded(s) ==
    /\ pc = "collect"
    /\ st[s] = "Discovered"
    /\ \A t \in Dirs : t < s => st[t] # "Discovered"
    /\ st' = [st EXCEPT ![s] = "Detecting"]
    /\ UNCHANGED <<pc, exit, submissions, outcome, scratch, invoked, det,
                   gradeCalls, fut, collected, results>>
    /\ UNCHANGED <<reportVars, fsVars, probeVars>>

\* A pool whose workers are not handed back when their task has ended.
Start_KeepsWorker(s) ==
    /\ pc = "collect"
    /\ st[s] = "Discovered"
    /\ \A t \in Dirs : t < s => st[t] # "Discovered"
    /\ Cardinality(Active \cup Terminal) < config.parallel_workers
    /\ st' = [st EXCEPT ![s] = "Detecting"]
    /\ UNCHANGED <<pc, exit, submissions, outcome, scratch, invoked, det,
                   gradeCalls, fut, collected, results>>
    /\ UNCHANGED <<reportVars, fsVars, probeVars>>

\* A free worker takes the next queued submission.
Start(s) ==
    /\ pc = "collect"
    /\ st[s] = "Discovered"
    /\ \A t \in Dirs : t < s => st[t] # "Discovered"
    /\ Cardinality(Active) < config.parallel_workers
    /\ st' = [st EXCEPT ![s] = "Detecting"]
    /\ UNCHANGED <<pc, exit, submissions, outcome, scratch, invoked, det,
                   gradeCalls, fut, collected, results>>
    /\ UNCHANGED <<reportVars, fsVars, probeVars>>

\* A detection that yields no signal cancels the submissions still queued.
AfterDetection_CancelsQueued(s, r) ==
    IF r.raised
    THEN LET p == process_submission(config, SubOf(s), r, FALSE)
         IN /\ st' = [st EXCEPT ![s] = "Failed"]
            /\ fut' = [fut EXCEPT ![s] =
                          [set |-> TRUE, raised |-> p.raised, value |-> p.value]]
            /\ det' = det
    ELSE LET cancel == { d \in Dirs :
                            d # s /\ st[d] = "Discovered" /\ ~r.value.present }
         IN /\ st' = [d \in Dirs |->
                         IF d = s THEN "Grading"
                         ELSE IF d \in cancel THEN "Failed" ELSE st[d]]
            /\ det' = [det EXCEPT ![s] = r.value]
            /\ fut' = [d \in Dirs |->
                          IF d \in cancel
                          THEN [set |-> TRUE, raised |-> TRUE, value |-> None]
                          ELSE fut[d]]

\* A detection that yields no signal is tried once more.
AfterDetection_Retries(s, r) ==
    IF ~r.raised /\ ~r.value.present /\ config.enabled /\ invoked[s] = 0
    THEN UNCHANGED <<st, det, fut>>
    ELSE /\ st' = [st EXCEPT ![s] = "Grading"]
         /\ det' = [det EXCEPT ![s] = r.value]
         /\ fut' = fut

\* The task of s after run_ai_detection: r is what it did.
AfterDetection(s, r) ==
    IF r.raised
    THEN LET p == process_submission(config, SubOf(s), r, FALSE)
         IN /\ st' = [st EXCEPT ![s] = "Failed"]
            /\ fut' = [fut EXCEPT ![s] =
                          [set |-> TRUE, raised |-> p.raised, value |-> p.value]]
            /\ det' = det
    ELSE /\ st' = [st EXCEPT ![s] = "Grading"]
         /\ det' = [det EXCEPT ![s] = r.value]
         /\ fut' = fut

\* process_submission: the call of run_ai_detection
Detect(s) ==
    /\ st[s] = "Detecting"
    /\ IF ~config.enabled
       THEN /\ outcome' = [outcome EXCEPT ![s] = "not_run"]
            /\ UNCHANGED <<scratch, invoked>>
            /\ AfterDetection(s, run_ai_detection(config, "not_run", scratch[s]))
       ELSE /\ invoked' = [invoked EXCEPT ![s] = @ + 1]
            /\ \/ /\ outcome' = [outcome EXCEPT ![s] = "timeout"]
                  /\ scratch' = scratch
                  /\ AfterDetection(s,
                        run_ai_detection(config, "timeout", scratch[s]))
               \/ /\ outcome' = [outcome EXCEPT ![s] = "no_output"]
                  /\ scratch' = scratch
                  /\ AfterDetection(s,
                        run_ai_detection(config, "returned", scratch[s]))
               \/ \E content \in PipelineReports \cup {Garbage} :
                  /\ outcome' = [outcome EXCEPT ![s] = "wrote"]
                  /\ scratch' = [scratch EXCEPT ![s] = content]
                  /\ AfterDetection(s,
                        run_ai_detection(config, "returned", content))
    /\ UNCHANGED <<pc, exit, submissions, gradeCalls, collected, results>>
    /\ UNCHANGED <<reportVars, fsVars, probeVars>>

\* A grading step that rescales the shared weight table in place.
Grade_RescalesWeights(s) ==
    /\ st[s] = "Grading"
    /\ gradeCalls' = [gradeCalls EXCEPT ![s] = @ + 1]
    /\ \E fault \in BOOLEAN :
          LET p == process_submission(config, SubOf(s),
                      [raised |-> FALSE, value |-> det[s]], fault)
          IN /\ st' = [st EXCEPT ![s] =
                          IF p.failed \/ p.raised THEN "Failed" ELSE "Completed"]
             /\ fut' = [fut EXCEPT ![s] =
                           [set |-> TRUE, raised |-> p.raised, value |-> p.value]]
    /\ config' = [config EXCEPT !.criteria =
                      [c \in DOMAIN config.criteria |->
                          IF TotalWeight(config) = 0 THEN config.criteria[c]
                          ELSE config.criteria[c] \div TotalWeight(config)]]
    /\ UNCHANGED <<pc, exit, submissions, outcome, scratch, invoked, det,
                   collected, results>>
    /\ UNCHANGED <<reportVars, rootExists, hasCode, probeVars>>

\* process_submission: the call of calculate_grade and the return
Grade(s) ==
    /\ st[s] = "Grading"
    /\ gradeCalls' = [gradeCalls EXCEPT ![s] = @ + 1]
    /\ \E fault \in BOOLEAN :
          LET p == process_submission(config, SubOf(s),
                      [raised |-> FALSE, value |-> det[s]], fault)
          IN /\ st' = [st EXCEPT ![s] =
                          IF p.failed \/ p.raised THEN "Failed" ELSE "Completed"]
             /\ fut' = [fut EXCEPT ![s] =
                           [set |-> TRUE, raised |-> p.raised, value |-> p.value]]
    /\ UNCHANGED <<pc, exit, submissions, outcome, scratch, invoked, det,
                   collected, results>>
    /\ UNCHANGED <<reportVars, fsVars, probeVars>>

\* process_all_submissions: one round of the as_completed loop
Collect(s) ==
    /\ pc = "collect"
    /\ s \in Terminal
    /\ s \notin collected
    /\ collected' = collected \cup {s}
    /\ results' = IF fut[s].raised THEN results
                  ELSE Append(results, fut[s].value)
    /\ UNCHANGED <<pc, exit, submissions>>
    /\ UNCHANGED <<taskVars, reportVars, fsVars, probeVars>>

\* process_all_submissions that returns after the first collected result
ReturnResults_AfterFirst ==
    /\ pc = "collect"
    /\ collected # {}
    /\ pc' = "reports"
    /\ UNCHANGED <<exit, submissions, collected, results>>
    /\ UNCHANGED <<taskVars, reportVars, fsVars, probeVars>>

\* process_all_submissions returns; run_pipeline calls generate_reports
ReturnResults ==
    /\ pc = "collect"
    /\ collected = IdsOf(submissions)
    /\ pc' = "reports"
    /\ UNCHANGED <<exit, submissions, collected, results>>
    /\ UNCHANGED <<taskVars, reportVars, fsVars, probeVars>>

----------------------------------------------------------------------------
(* generate_reports                                                        *)

Grades ==
    {"A+", "A", "A-", "B+", "B", "B-", "C+", "C", "C-", "D+", "D", "D-", "F"}

Indices(seq) == 1..Len(seq)

\* [r for r in results if r.academic_integrity_flag], as positions
FlaggedIndices(res) == { i \in Indices(res) : res[i].academic_integrity_flag }

\* The student ids of the results at the positions in S, in list order.
RECURSIVE IdsAt(_, _)
IdsAt(res, S) ==
    IF S = {} THEN << >>
    ELSE LET m == CHOOSE x \in S : \A y \in S : x <= y
         IN <<res[m].student_id>> \o IdsAt(res, S \ {m})

\* An exception leaves run_pipeline (logged and raised again).
Raise ==
    /\ pc' = "done"
    /\ exit' = "raised"

\* generate_reports: os.makedirs of the two output directories
BeginReports ==
    /\ pc = "reports"
    /\ \/ /\ pc' = "feedback"
          /\ UNCHANGED <<exit, ioFault>>
       \/ /\ Raise
          /\ ioFault' = TRUE
    /\ UNCHANGED <<called, feedbackFiles, summary, csv, integrity>>
    /\ UNCHANGED <<submissions, collected, results>>
    /\ UNCHANGED <<taskVars, fsVars, probeVars>>

\* generate_reports: _generate_individual_feedback, when enabled
GenerateIndividualFeedback ==
    /\ pc = "feedback"
    /\ IF config.individual_feedback
       THEN /\ called' = called \cup {"individual_feedback"}
            /\ \/ /\ feedbackFiles' = IdsOf(results)
                  /\ pc' = "summary"
                  /\ UNCHANGED <<exit, ioFault>>
               \/ \E k \in Indices(results) :
                  /\ feedbackFiles' = IdsOf(SubSeq(results, 1, k - 1))
                  /\ Raise
                  /\ ioFault' = TRUE
       ELSE /\ pc' = "summary"
            /\ UNCHANGED <<exit, ioFault, called, feedbackFiles>>
    /\ UNCHANGED <<summary, csv, integrity>>
    /\ UNCHANGED <<submissions, collected, results>>
    /\ UNCHANGED <<taskVars, fsVars, probeVars>>

\* The sum of two scores.
AddScores(a, b) ==
    IF a.den = b.den THEN [num |-> a.num + b.num, den |-> a.den]
    ELSE [num |-> a.num * b.den + b.num * a.den, den |-> a.den * b.den]

\* sum(r.overall_score for r in results)
RECURSIVE SumScores(_, _)
SumScores(res, n) ==
    IF n = 0 THEN [num |-> 0, den |-> 1]
    ELSE AddScores(SumScores(res, n - 1), res[n].overall_score)

ZeroScore == [num |-> 0, den |-> 1]

\* _generate_summary_report without the "if total_students > 0" guards
SummaryOf_Unguarded(res) ==
    LET total == Len(res)
        sum == SumScores(res, total)
        count == [g \in Grades |->
                    Cardinality({ i \in Indices(res) : res[i].grade_letter = g })]
    IN [written |-> TRUE,
        total_students |-> total,
        avg_score |-> [num |-> sum.num, den |-> sum.den * total],
        ai_flagged |-> Cardinality(FlaggedIndices(res)),
        manual_review_needed |->
           Cardinality({ i \in Indices(res) : res[i].requires_manual_review }),
        grade_distribution |-> count,
        percentage |-> [g \in Grades |-> [num |-> count[g] * 100, den |-> total]],
        alerts |-> IdsAt(res, FlaggedIndices(res))]

\* _generate_summary_report: the statistics it writes
SummaryOf(res) ==
    LET total == Len(res)
        sum == SumScores(res, total)
        count == [g \in Grades |->
                    Cardinality({ i \in Indices(res) : res[i].grade_letter = g })]
    IN [written |-> TRUE,
        total_students |-> total,
        avg_score |-> IF total > 0
                      THEN [num |-> sum.num, den |-> sum.den * total]
                      ELSE ZeroScore,
        ai_flagged |-> Cardinality(FlaggedIndices(res)),
        manual_review_needed |->
           Cardinality({ i \in Indices(res) : res[i].requires_manual_review }),
        grade_distribution |-> count,
        percentage |-> [g \in Grades |->
                          IF total > 0
                          THEN [num |-> count[g] * 100, den |-> total]
                          ELSE ZeroScore],
        alerts |-> IdsAt(res, FlaggedIndices(res))]

\* ai_info.confidence_score on a flagged result without a detection result
DereferencesNone(res) ==
    \E i \in FlaggedIndices(res) : ~res[i].ai_detection.present

\* generate_reports: _generate_summary_report, when enabled
GenerateSummaryReport ==
    /\ pc = "summary"
    /\ IF config.summary_report
       THEN /\ called' = called \cup {"summary_report"}
            /\ IF DereferencesNone(results)
               THEN /\ Raise
                    /\ UNCHANGED <<summary, ioFault>>
               ELSE \/ /\ summary' = SummaryOf(results)
                       /\ pc' = "csv"
                       /\ UNCHANGED <<exit, ioFault>>
                    \/ /\ Raise
                       /\ ioFault' = TRUE
                       /\ UNCHANGED summary
       ELSE /\ pc' = "csv"
            /\ UNCHANGED <<exit, ioFault, called, summary>>
    /\ UNCHANGED <<feedbackFiles, csv, integrity>>
    /\ UNCHANGED <<submissions, collected, results>>
    /\ UNCHANGED <<taskVars, fsVars, probeVars>>

\* _generate_csv_export: the criteria columns after the nine fixed ones
CsvCriteriaColumns(res) ==
    IF Len(res) > 0 THEN DOMAIN res[1].criteria_scores ELSE {}

\* csv.DictWriter.writerow raises ValueError on a key that is no column
RowFits(r, columns) == DOMAIN r.criteria_scores \subseteq columns

\* _generate_csv_export: the number of rows written before writerow raises
CsvRowsWritten(res, columns) ==
    IF \A i \in Indices(res) : RowFits(res[i], columns)
    THEN Len(res)
    ELSE (CHOOSE i \in Indices(res) :
            /\ ~RowFits(res[i], columns)
            /\ \A j \in 1..(i - 1) : RowFits(res[j], columns)) - 1

\* _generate_csv_export: one row; a column the result lacks stays blank
CsvRow(r, columns) ==
    [student_id |-> r.student_id,
     overall_score |-> r.overall_score,
     grade_letter |-> r.grade_letter,
     ai_detected |-> r.ai_detection.present /\ r.ai_detection.is_ai_generated,
     requires_manual_review |-> r.requires_manual_review,
     academic_integrity_flag |-> r.academic_integrity_flag,
     criteria |-> [c \in columns \cap DOMAIN r.criteria_scores |->
                      r.criteria_scores[c]]]

\* _generate_csv_export: the file it leaves
CsvOf(res) ==
    LET columns == CsvCriteriaColumns(res)
        n == CsvRowsWritten(res, columns)
    IN [written |-> TRUE,
        columns |-> columns,
        rows |-> [i \in 1..n |-> CsvRow(res[i], columns)],
        complete |-> n = Len(res)]

\* generate_reports: _generate_csv_export, when enabled
GenerateCsvExport ==
    /\ pc = "csv"
    /\ IF config.csv_export
       THEN /\ called' = called \cup {"csv_export"}
            /\ \/ /\ csv' = CsvOf(results)
                  /\ IF csv'.complete
                     THEN /\ pc' = "integrity"
                          /\ exit' = exit
                     ELSE Raise
                  /\ UNCHANGED ioFault
               \/ /\ Raise
                  /\ ioFault' = TRUE
                  /\ UNCHANGED csv
       ELSE /\ pc' = "integrity"
            /\ UNCHANGED <<exit, ioFault, called, csv>>
    /\ UNCHANGED <<feedbackFiles, summary, integrity>>
    /\ UNCHANGED <<submissions, collected, results>>
    /\ UNCHANGED <<taskVars, fsVars, probeVars>>

\* _generate_integrity_report without "if not ai_flagged: return"
GenerateIntegrityReport_NoEarlyReturn ==
    /\ pc = "integrity"
    /\ called' = called \cup {"integrity_report"}
    /\ IF DereferencesNone(results)
       THEN /\ Raise
            /\ UNCHANGED <<ioFault, integrity>>
       ELSE \/ /\ integrity' =
                    [written |-> TRUE,
                     sections |-> IdsAt(results, FlaggedIndices(results))]
               /\ pc' = "finish"
               /\ UNCHANGED <<exit, ioFault>>
            \/ /\ Raise
               /\ ioFault' = TRUE
               /\ UNCHANGED integrity
    /\ UNCHANGED <<feedbackFiles, summary, csv>>
    /\ UNCHANGED <<submissions, collected, results>>
    /\ UNCHANGED <<taskVars, fsVars, probeVars>>

\* generate_reports: _generate_integrity_report
GenerateIntegrityReport ==
    /\ pc = "integrity"
    /\ called' = called \cup {"integrity_report"}
    /\ IF FlaggedIndices(results) = {}
       THEN /\ pc' = "finish"
            /\ UNCHANGED <<exit, ioFault, integrity>>
       ELSE IF DereferencesNone(results)
       THEN /\ Raise
            /\ UNCHANGED <<ioFault, integrity>>
       ELSE \/ /\ integrity' =
                    [written |-> TRUE,
                     sections |-> IdsAt(results, FlaggedIndices(results))]
               /\ pc' = "finish"
               /\ UNCHANGED <<exit, ioFault>>
            \/ /\ Raise
               /\ ioFault' = TRUE
               /\ UNCHANGED integrity
    /\ UNCHANGED <<feedbackFiles, summary, csv>>
    /\ UNCHANGED <<submissions, collected, results>>
    /\ UNCHANGED <<taskVars, fsVars, probeVars>>

\* run_pipeline: the closing log lines and the return
Finish ==
    /\ pc = "finish"
    /\ pc' = "done"
    /\ exit' = "ok"
    /\ UNCHANGED <<submissions, collected, results>>
    /\ UNCHANGED <<taskVars, reportVars, fsVars, probeVars>>

----------------------------------------------------------------------------
Next ==
    \/ Discover
    \/ \E s \in Dirs : Start(s)
    \/ \E s \in Dirs : Detect(s)
    \/ \E s \in Dirs : Grade(s)
    \/ \E s \in Dirs : Collect(s)
    \/ ReturnResults
    \/ BeginReports
    \/ GenerateIndividualFeedback
    \/ GenerateSummaryReport
    \/ GenerateCsvExport
    \/ GenerateIntegrityReport
    \/ Finish

Spec == Init /\ [][Next]_vars

----------------------------------------------------------------------------
(* run_pipeline up to the return of process_all_submissions, with the      *)
(* scheduling the thread pool gives                                        *)

\* A run with every report enabled.
ProcessingInit ==
    /\ Init
    /\ config.individual_feedback
    /\ config.summary_report
    /\ config.csv_export

ProcessingNext ==
    \/ Discover
    \/ \E s \in Dirs : Start(s)
    \/ \E s \in Dirs : Detect(s)
    \/ \E s \in Dirs : Grade(s)
    \/ \E s \in Dirs : Collect(s)
    \/ ReturnResults

\* The scheduling of the pool: a free worker takes a queued task;
\* subprocess.run returns or raises TimeoutExpired after timeout_seconds; the
\* as_completed loop takes every finished future and then ends; and a thread
\* that is grading goes on.  The last condition is WF_vars(Grade(s)) written
\* out: Grade(s) is enabled exactly while st[s] = "Grading", and a step of it
\* ends that.
ProcessingFairness ==
    /\ WF_vars(\E s \in Dirs : Start(s))
    /\ WF_vars(\E s \in Dirs : Detect(s))
    /\ WF_vars(\E s \in Dirs : Collect(s))
    /\ WF_vars(ReturnResults)
    /\ \A s \in Dirs : []<>(st[s] # "Grading")

ProcessingSpec ==
    ProcessingInit /\ [][ProcessingNext]_vars /\ ProcessingFairness

----------------------------------------------------------------------------
(* One call of process_submission on drawn inputs                          *)

\* Confidences the detector may report, in hundredths.
GradeConfidences == {0, 30, 49, 50, 51, 59, 60, 79, 80, 89, 90, 100}

GradeFiles ==
    {NoFile, Garbage} \cup
    { Report(f, c) : f \in BOOLEAN, c \in GradeConfidences }

GradeConfigs ==
    { MakeConfig(en, fail, lp, crit, 1, TRUE, TRUE, TRUE) :
        en \in BOOLEAN, fail \in BOOLEAN, lp \in {0, 10, 50, 100},
        crit \in {DefaultCriteria, ZeroCriteria, PartialCriteria,
                  HeavyCriteria} }

\* Inputs of one call.  discover_submissions never sets late_submission
\* (_is_late_submission answers False); calculate_grade reads the field of
\* whatever StudentSubmission it is given, so both values are drawn here.
GradeInputs ==
    { [probe |-> TRUE, cfg |-> cfg, sub |-> Submission(1, late),
       outcome |-> o, file |-> f, fault |-> fault] :
        cfg \in GradeConfigs, late \in BOOLEAN,
        o \in {"timeout", "returned"}, f \in GradeFiles,
        fault \in BOOLEAN }

GradeInit ==
    /\ pc = "probe"
    /\ exit = "running"
    /\ rootExists = FALSE
    /\ hasCode = [d \in Dirs |-> FALSE]
    /\ gradeIn \in GradeInputs
    /\ config = gradeIn.cfg
    /\ submissions = << >>
    /\ st = [d \in Dirs |-> "NoTask"]
    /\ outcome = [d \in Dirs |-> "none"]
    /\ scratch = [d \in Dirs |-> NoFile]
    /\ invoked = [d \in Dirs |-> 0]
    /\ det = [d \in Dirs |-> None]
    /\ gradeCalls = [d \in Dirs |-> 0]
    /\ fut = [d \in Dirs |-> NoFuture]
    /\ collected = {}
    /\ results = << >>
    /\ called = {}
    /\ feedbackFiles = {}
    /\ summary = NotWritten
    /\ csv = NotWritten
    /\ integrity = NotWritten
    /\ ioFault = FALSE
    /\ gradeOut = [stage |-> "input"]
    /\ fnIn = NoProbe
    /\ fnOut = NoProbe

pipelineVars ==
    <<pc, exit, submissions, collected, results, taskVars, reportVars, fsVars>>

\* process_submission: the call of run_ai_detection
ProbeDetect ==
    /\ pc = "probe"
    /\ gradeOut.stage = "input"
    /\ gradeOut' =
          [stage |-> "detected",
           det |-> run_ai_detection(gradeIn.cfg, gradeIn.outcome, gradeIn.file)]
    /\ UNCHANGED <<gradeIn, fnIn, fnOut, pipelineVars>>

\* process_submission: the call of calculate_grade and the return
ProbeGrade ==
    /\ pc = "probe"
    /\ gradeOut.stage = "detected"
    /\ gradeOut' =
          [stage |-> "graded",
           det |-> gradeOut.det,
           res |-> process_submission(gradeIn.cfg, gradeIn.sub, gradeOut.det,
                                      gradeIn.fault)]
    /\ UNCHANGED <<gradeIn, fnIn, fnOut, pipelineVars>>

GradeNext == ProbeDetect \/ ProbeGrade

GradeSpec == GradeInit /\ [][GradeNext]_vars

----------------------------------------------------------------------------
(* One call of a function of the pipeline on drawn inputs                  *)

\* The default configuration, as far as the pipeline reads it.
DefaultConfig ==
    MakeConfig(TRUE, FALSE, 10, DefaultCriteria, 1, TRUE, TRUE, TRUE)

\* No pipeline is running.
PipelineIdle ==
    /\ pc = "probe"
    /\ exit = "running"
    /\ rootExists = FALSE
    /\ hasCode = [d \in Dirs |-> FALSE]
    /\ config = DefaultConfig
    /\ submissions = << >>
    /\ st = [d \in Dirs |-> "NoTask"]
    /\ outcome = [d \in Dirs |-> "none"]
    /\ scratch = [d \in Dirs |-> NoFile]
    /\ invoked = [d \in Dirs |-> 0]
    /\ det = [d \in Dirs |-> None]
    /\ gradeCalls = [d \in Dirs |-> 0]
    /\ fut = [d \in Dirs |-> NoFuture]
    /\ collected = {}
    /\ results = << >>
    /\ called = {}
    /\ feedbackFiles = {}
    /\ summary = NotWritten
    /\ csv = NotWritten
    /\ integrity = NotWritten
    /\ ioFault = FALSE
    /\ gradeIn = NoProbe
    /\ gradeOut = NoProbe

\* The lower bounds of the letter grade brackets.
BreakpointValues == {97, 93, 90, 87, 83, 80, 77, 73, 70, 67, 63, 60}

\* Scores in hundredths of a point: every whole score, and the scores just
\* below, at and just above each breakpoint.
ScoreSamples ==
    { 100 * k : k \in 0..100 } \cup
    { 100 * b + d : b \in BreakpointValues, d \in {-1, 0, 1} }

\* The results process_submission gives the student with id i.
SampleResults(i) ==
    { FailingResult(Submission(i, FALSE)) } \cup
    { calculate_grade(DefaultConfig, Submission(i, FALSE), ai) :
        ai \in { None, AIDetectionResult(Report(TRUE, 95)),
                 AIDetectionResult(Report(FALSE, 30)) } }

\* The result lists of up to MaxSubs students.
SampleResultLists ==
    UNION { { res \in [1..n -> UNION { SampleResults(i) : i \in 1..n }] :
                \A i \in 1..n : res[i] \in SampleResults(i) } :
            n \in 0..MaxSubs }

FunctionInputs ==
    { [fn |-> "letter", score |-> [num |-> n, den |-> 100]] :
        n \in ScoreSamples } \cup
    { [fn |-> "summary", results |-> res] : res \in SampleResultLists }

FunctionInit ==
    /\ PipelineIdle
    /\ fnIn \in FunctionInputs
    /\ fnOut = [stage |-> "input"]

\* calculate_grade: the call of _score_to_letter_grade
ApplyLetterGrade ==
    /\ pc = "probe"
    /\ fnIn.fn = "letter"
    /\ fnOut.stage = "input"
    /\ fnOut' = [stage |-> "done", grade |-> score_to_letter_grade(fnIn.score)]
    /\ UNCHANGED <<fnIn, gradeIn, gradeOut, pipelineVars>>

\* _generate_summary_report on a result list
ApplySummary ==
    /\ pc = "probe"
    /\ fnIn.fn = "summary"
    /\ fnOut.stage = "input"
    /\ fnOut' = [stage |-> "done",
                 raised |-> DereferencesNone(fnIn.results),
                 summary |-> SummaryOf(fnIn.results)]
    /\ UNCHANGED <<fnIn, gradeIn, gradeOut, pipelineVars>>

FunctionNext == ApplyLetterGrade \/ ApplySummary

FunctionSpec == FunctionInit /\ [][FunctionNext]_vars

----------------------------------------------------------------------------
(* Resolving the configuration                                             *)

\* A configuration tree is a mapping from keys to values; a value is a
\* mapping again or any other JSON value, kept as its JSON text.
Leaf(text) == [leaf |-> TRUE, val |-> text]
Node(dict) == [leaf |-> FALSE, kids |-> dict]
EmptyDict == [k \in {} |-> Leaf("null")]

\* isinstance(value, dict)
IsDict(value) == ~value.leaf

\* _load_config: default_config
default_config ==
    [ai_detection |-> Node(
        [enabled |-> Leaf("true"),
         threshold |-> Leaf("0.75"),
         analyzers |-> Leaf("\"git,documentation\""),
         fail_on_detection |-> Leaf("false"),
         include_in_report |-> Leaf("true")]),
     grading |-> Node(
        [system |-> Leaf("\"letter\""),
         max_score |-> Leaf("100"),
         passing_threshold |-> Leaf("70"),
         criteria |-> Node(
            [correctness |-> Leaf("40"),
             code_quality |-> Leaf("25"),
             documentation |-> Leaf("15"),
             testing |-> Leaf("10"),
             creativity |-> Leaf("10")])]),
     assignment |-> Node(
        [title |-> Leaf("\"Programming Assignment\""),
         difficulty |-> Leaf("\"mid\""),
         type |-> Leaf("\"take-home\""),
         late_penalty |-> Leaf("10")]),
     processing |-> Node(
        [parallel_workers |-> Leaf("4"),
         timeout_seconds |-> Leaf("300")]),
     output |-> Node(
        [results_dir |-> Leaf("\"./grading-results\""),
         reports_dir |-> Leaf("\"./grading-reports\""),
         individual_feedback |-> Leaf("true"),
         summary_report |-> Leaf("true"),
         csv_export |-> Leaf("true")])]

\* dict.update in place of the recursive merge
deep_merge_Shallow(base_dict, update_dict) ==
    [key \in DOMAIN base_dict \cup DOMAIN update_dict |->
        IF key \in DOMAIN update_dict THEN update_dict[key] ELSE base_dict[key]]

\* _deep_merge: base_dict after the call
RECURSIVE deep_merge(_, _)
deep_merge(base_dict, update_dict) ==
    [key \in DOMAIN base_dict \cup DOMAIN update_dict |->
        IF key \notin DOMAIN update_dict THEN base_dict[key]
        ELSE IF /\ key \in DOMAIN base_dict
                /\ IsDict(base_dict[key])
                /\ IsDict(update_dict[key])
             THEN Node(deep_merge(base_dict[key].kids, update_dict[key].kids))
             ELSE update_dict[key]]

\* The configuration document at config_path.
MissingDocument == [kind |-> "missing"]
UnparseableDocument == [kind |-> "unparseable"]
JsonDocument(value) == [kind |-> "json", value |-> value]

\* _load_config returning the document in place of the merged defaults
load_config_UserOnly(doc) ==
    IF doc.kind = "json" /\ IsDict(doc.value)
    THEN doc.value.kids
    ELSE default_config

\* _load_config: no path or no file gives the defaults; so does a document
\* json.load rejects and one that is not a mapping (its .items() raises
\* before base_dict is touched), both caught by the except branch.
load_config(doc) ==
    IF doc.kind = "json" /\ IsDict(doc.value)
    THEN deep_merge(default_config, doc.value.kids)
    ELSE default_config

\* The nesting depth of the drawn override documents.
MaxDepth == 3

\* The keys drawn at each nesting level.
KeysAt(keys, level) == IF level <= Len(keys) THEN keys[level] ELSE {"extra"}

\* The mappings with keys of the level and values of the given set.
DictsOver(keySet, values) ==
    UNION { [ks -> values] : ks \in SUBSET keySet }

\* The values with at most depth nested mappings, all leaves with one text.
RECURSIVE Trees(_, _, _, _)
Trees(keys, level, depth, text) ==
    IF depth = 0 THEN { Leaf(text) }
    ELSE { Leaf(text) } \cup
         { Node(d) : d \in DictsOver(KeysAt(keys, level),
                                     Trees(keys, level + 1, depth - 1, text)) }

\* Keys of the default tree at its three levels, and an unknown key.
ConfigKeys == << {"grading", "extra"}, {"criteria", "system"}, {"correctness"} >>

OverrideDocuments ==
    { MissingDocument, UnparseableDocument } \cup
    { JsonDocument(v) : v \in Trees(ConfigKeys, 1, MaxDepth, "9") }

MergeKeys == << {"a", "b"}, {"x", "y"} >>

DictTrees(keys, depth, text) ==
    { t.kids : t \in { u \in Trees(keys, 1, depth, text) : IsDict(u) } }

ExampleBase == [a |-> Node([x |-> Leaf("1"), y |-> Leaf("2")])]
ExampleUpdate == [a |-> Node([y |-> Leaf("9"), z |-> Leaf("3")])]

MergeInputs ==
    { [fn |-> "merge", base |-> ExampleBase, update |-> ExampleUpdate] } \cup
    { [fn |-> "merge", base |-> b, update |-> u] :
        b \in DictTrees(MergeKeys, MaxDepth - 1, "1"),
        u \in DictTrees(MergeKeys, MaxDepth - 1, "9") }

ConfigInputs ==
    MergeInputs \cup { [fn |-> "load", doc |-> d] : d \in OverrideDocuments }

ConfigInit ==
    /\ PipelineIdle
    /\ fnIn \in ConfigInputs
    /\ fnOut = [stage |-> "input"]

\* __init__: self.config = self._load_config(config_path)
ApplyLoadConfig ==
    /\ pc = "probe"
    /\ fnIn.fn = "load"
    /\ fnOut.stage = "input"
    /\ fnOut' = [stage |-> "done", config |-> load_config(fnIn.doc)]
    /\ UNCHANGED <<fnIn, gradeIn, gradeOut, pipelineVars>>

\* _deep_merge on two mappings
ApplyDeepMerge ==
    /\ pc = "probe"
    /\ fnIn.fn = "merge"
    /\ fnOut.stage = "input"
    /\ fnOut' = [stage |-> "done", config |-> deep_merge(fnIn.base, fnIn.update)]
    /\ UNCHANGED <<fnIn, gradeIn, gradeOut, pipelineVars>>

ConfigNext == ApplyLoadConfig \/ ApplyDeepMerge

ConfigSpec == ConfigInit /\ [][ConfigNext]_vars

----------------------------------------------------------------------------
(* Properties                                                              *)

\* process_all_submissions has returned its list to run_pipeline.
ProcessingReturned ==
    /\ Len(submissions) > 0
    /\ pc \notin {"start", "collect", "probe"}

\* The values the tasks have produced so far.
Produced == { fut[d].value : d \in { e \in Dirs : fut[e].set /\ ~fut[e].raised } }

\* The detector invocation of s ended without a usable report.
NoSignal(s) ==
    /\ invoked[s] > 0
    /\ st[s] \in {"Grading", "Completed", "Failed"}
    /\ \/ outcome[s] = "timeout"
       \/ ~scratch[s].exists
       \/ (scratch[s].exists /\ ~scratch[s].parses)

\* C1: once process_all_submissions has returned, its list holds exactly one
\* GradingResult per discovered submission, with that submission's student
\* id: as many entries as submissions, none dropped, none duplicated,
\* whatever the detector did and whether or not grading raised.
C1_OneResultPerSubmission ==
    ProcessingReturned =>
        /\ Len(results) = Len(submissions)
        /\ \A i \in Indices(submissions) :
              Cardinality({ j \in Indices(results) :
                 results[j].student_id = submissions[i].student_id }) = 1

C1_Witness ==
    /\ ProcessingReturned
    /\ Len(submissions) = MaxSubs
    /\ \E s \in Dirs : st[s] = "Failed"
    /\ \E s \in Dirs : st[s] = "Completed" /\ outcome[s] = "timeout"

\* C2: a submission whose processing raised gets the synthetic failing
\* result (score 0, grade F, manual review required, feedback that names the
\* failure), and every other submission's entry in the returned list is the
\* grade calculated from its own detection result.
C2_FailureIsLocal ==
    /\ \A s \in Dirs : st[s] = "Failed" =>
          /\ fut[s].set /\ ~fut[s].raised
          /\ fut[s].value.student_id = s
          /\ fut[s].value.overall_score.num = 0
          /\ fut[s].value.grade_letter = "F"
          /\ fut[s].value.requires_manual_review
          /\ fut[s].value.feedback.kind = "processing_failed"
    /\ ProcessingReturned =>
          \A s \in Dirs : st[s] = "Completed" =>
             LET own == calculate_grade(config, SubOf(s), det[s])
             IN \E j \in Indices(results) :
                   results[j].student_id = s /\ results[j] = own

C2_Witness ==
    /\ ProcessingReturned
    /\ \E s, t \in Dirs :
          /\ st[s] = "Failed"
          /\ st[t] = "Completed"
          /\ det[t].present

\* C4: in every GradingResult a task produces or the returned list holds,
\* the academic integrity flag implies that a manual review is required.
C4_IntegrityImpliesReview ==
    /\ \A r \in Produced :
          r.academic_integrity_flag => r.requires_manual_review
    /\ \A j \in Indices(results) :
          results[j].academic_integrity_flag => results[j].requires_manual_review

C4_Witness ==
    \E j \in Indices(results) :
        /\ results[j].academic_integrity_flag
        /\ \E k \in Indices(results) : results[k].feedback.kind = "processing_failed"

\* C5: when the detector times out, leaves no scratch file or leaves one
\* that does not parse, run_ai_detection returns None without raising:
\* grading is reached, and a grade that is then calculated carries no
\* detection result, no detection penalty, no integrity flag and no request
\* for a manual review.
C5_NoSignalDegrades ==
    \A s \in Dirs : NoSignal(s) =>
        /\ det[s] = None
        /\ fut[s].set => ~fut[s].raised
        /\ st[s] \in {"Completed", "Failed"} => gradeCalls[s] = 1
        /\ st[s] = "Completed" =>
              /\ fut[s].value.ai_detection = None
              /\ ~fut[s].value.academic_integrity_flag
              /\ ~fut[s].value.requires_manual_review
              /\ \A c \in DOMAIN base_scores :
                    fut[s].value.criteria_scores[c] = base_scores[c] * Scale

C5_Witness ==
    \E s, t \in Dirs :
        /\ NoSignal(s) /\ st[s] = "Completed" /\ outcome[s] = "timeout"
        /\ NoSignal(t) /\ st[t] = "Completed" /\ scratch[t] = Garbage

\* A step in which the detection of s ends without a signal.
EndsWithoutSignal(s) ==
    /\ st[s] = "Detecting"
    /\ st'[s] # "Detecting"
    /\ det'[s] = None

\* Every task ran its own detection and grading, on its own inputs.
EachTaskOnItsOwn ==
    /\ \A t \in Dirs : st[t] \in {"Grading", "Completed"} =>
          det[t] = run_ai_detection(config,
                      IF outcome[t] = "timeout" THEN "timeout" ELSE "returned",
                      scratch[t]).value
    /\ ProcessingReturned =>
          \A t \in IdsOf(submissions) :
             /\ st[t] \in {"Completed", "Failed"}
             /\ invoked[t] = (IF config.enabled THEN 1 ELSE 0)
             /\ gradeCalls[t] = 1

\* C6: a detection that ends without a signal (timeout, failure) changes
\* nothing of any sibling task, in every interleaving; every sibling runs its
\* own detector invocation and its own grading, and its detection result is
\* the one its own invocation gives.
C6_SiblingsUntouched ==
    /\ []EachTaskOnItsOwn
    /\ [][\A s \in Dirs : EndsWithoutSignal(s) =>
            \A t \in Dirs \ {s} :
               /\ st'[t] = st[t]
               /\ det'[t] = det[t]
               /\ fut'[t] = fut[t]
               /\ scratch'[t] = scratch[t]
               /\ outcome'[t] = outcome[t]]_vars

C6_Witness ==
    \E s, t \in Dirs :
        /\ s < t
        /\ outcome[s] = "timeout"
        /\ st[t] = "Completed"
        /\ outcome[t] = "wrote"
        /\ det[t].present
        /\ config.parallel_workers = 1

\* Discovery finds nothing to grade.
NothingToGrade == ~rootExists \/ \A d \in Dirs : ~hasCode[d]

\* C7: when the submissions directory does not exist or holds no valid
\* submission, run_pipeline ends before any grading: no detector invocation,
\* no grade calculation, no report generator called, no artifact written.
C7_AbortBeforeGrading ==
    NothingToGrade =>
        /\ \A d \in Dirs : st[d] = "NoTask" /\ invoked[d] = 0 /\ gradeCalls[d] = 0
        /\ results = << >>
        /\ called = {}
        /\ feedbackFiles = {}
        /\ ~summary.written /\ ~csv.written /\ ~integrity.written
        /\ pc \in {"start", "done"}
        /\ pc = "done" => exit = (IF rootExists THEN "no_submissions" ELSE "raised")

C7_Witness ==
    /\ rootExists
    /\ pc = "done"
    /\ exit = "no_submissions"

\* C8: with at least one discovered submission and no failing write,
\* run_pipeline runs report generation to its end and returns without
\* raising, whichever submissions failed and in whatever order they completed.
C8_FailuresAbsorbed ==
    (pc = "done" /\ Len(submissions) > 0 /\ ~ioFault) =>
        /\ exit = "ok"
        /\ "integrity_report" \in called

\* C9: once generate_reports has started on its artifacts, every enabled
\* report generator is called before run_pipeline ends, also when the
\* generation of another artifact has failed.
C9_EveryEnabledReportAttempted ==
    (pc = "done" /\ called # {}) =>
        /\ config.individual_feedback => "individual_feedback" \in called
        /\ config.summary_report => "summary_report" \in called
        /\ config.csv_export => "csv_export" \in called
        /\ "integrity_report" \in called

\* C10: the CSV export that _generate_csv_export leaves has exactly one row
\* per submission, and its criteria columns are the keys of the first
\* result's criteria map, for every result list, synthetic failing results
\* with an empty criteria map included, in any completion order.
C10_CsvOneRowPerSubmission ==
    csv.written =>
        /\ Len(csv.rows) = Len(submissions)
        /\ csv.columns = DOMAIN results[1].criteria_scores

\* The student ids of the results that carry the integrity flag.
FlaggedStudents ==
    { results[j].student_id :
        j \in { i \in Indices(results) : results[i].academic_integrity_flag } }

\* _generate_integrity_report has been called and has returned.
IntegrityReportDone == pc = "finish" \/ (pc = "done" /\ exit = "ok")

\* C11: the integrity report is written only if some result carries the
\* integrity flag; once its generator has returned, no report exists when no
\* result is flagged, and otherwise the report has exactly one section per
\* flagged student and none for any other student.
C11_IntegrityReportSections ==
    /\ integrity.written =>
          /\ FlaggedStudents # {}
          /\ IdsOf([i \in Indices(integrity.sections) |->
                      [student_id |-> integrity.sections[i]]]) = FlaggedStudents
          /\ Len(integrity.sections) = Cardinality(FlaggedStudents)
    /\ IntegrityReportDone => (integrity.written <=> FlaggedStudents # {})

C11_Witness ==
    /\ IntegrityReportDone
    /\ integrity.written
    /\ Len(integrity.sections) = 1
    /\ \E j \in Indices(results) : results[j].requires_manual_review
                                   /\ ~results[j].academic_integrity_flag

\* C18: with detection disabled the detector is never invoked and
\* run_ai_detection returns None for every submission, also when a scratch
\* file of an earlier run exists; no result of the run carries a detection
\* result or the integrity flag.
C18_DisabledDetection ==
    ~config.enabled =>
        /\ \A d \in Dirs : invoked[d] = 0 /\ det[d] = None
        /\ \A r \in Produced :
              r.ai_detection = None /\ ~r.academic_integrity_flag
        /\ \A j \in Indices(results) :
              results[j].ai_detection = None /\ ~results[j].academic_integrity_flag
        /\ ~integrity.written

C18_Witness ==
    /\ ~config.enabled
    /\ pc = "done" /\ exit = "ok"
    /\ Len(results) = MaxSubs
    /\ \A d \in Dirs : scratch[d] = StaleReport
    /\ \E d \in Dirs : st[d] = "Completed"

\* C20: at every moment at most processing.parallel_workers submissions are
\* in the Detecting or Grading state, so a submission is taken from the queue
\* only by a worker that has finished its previous one.
C20_BoundedWorkers ==
    /\ Cardinality(Active) <= config.parallel_workers
    /\ \A s \in Dirs : st[s] = "Discovered" =>
          \A t \in Dirs : t > s => st[t] \in {"Discovered", "NoTask"}

C20_Witness ==
    /\ config.parallel_workers = 1
    /\ Cardinality(Active) = 1
    /\ \E s \in Dirs : st[s] = "Discovered"
    /\ \E s \in Dirs : st[s] = "Grading"

----------------------------------------------------------------------------
(* Properties of one call, under GradeSpec                                 *)

\* The inputs the score bound is claimed for.
ValidGradeInput(in) ==
    /\ in.cfg.late_penalty \in 0..100
    /\ \A c \in DOMAIN in.cfg.criteria : in.cfg.criteria[c] >= 0
    /\ TotalWeight(in.cfg) > 0
    /\ (in.file.exists /\ in.file.parses) => in.file.confidenceScore \in 0..100

\* C3: for valid inputs (confidence in [0,1], late penalty in [0,100],
\* non-negative weights with a positive sum), whatever the detection result,
\* fail_on_detection and lateness, the overall score is in [0,100]; so is
\* the score of the synthetic failing result.
C3_OverallScoreInRange ==
    (gradeOut.stage = "graded" /\
        (ValidGradeInput(gradeIn) \/ gradeOut.res.failed)) =>
        LET score == gradeOut.res.value.overall_score
        IN /\ score.den > 0
           /\ 0 <= score.num
           /\ score.num <= 100 * score.den

C3_Witness ==
    /\ gradeOut.stage = "graded"
    /\ ~gradeOut.res.failed
    /\ gradeIn.sub.late_submission
    /\ gradeIn.cfg.late_penalty = 50
    /\ gradeIn.cfg.criteria = HeavyCriteria
    /\ gradeOut.det.value.present
    /\ gradeOut.det.value.is_ai_generated
    /\ ~gradeIn.cfg.fail_on_detection
    /\ gradeOut.res.value.overall_score.num > 0

\* The call has returned a grade calculated for a present, flagged result.
GradedFlagged ==
    /\ gradeOut.stage = "graded"
    /\ ~gradeOut.res.failed
    /\ gradeOut.det.value.present
    /\ gradeOut.det.value.is_ai_generated

\* C13: with fail_on_detection set and a present, flagged detection result,
\* every criterion score of the grade is 0 whatever the confidence, the
\* overall score is 0 and the letter grade is F.
C13_AutomaticFailure ==
    (GradedFlagged /\ gradeIn.cfg.fail_on_detection) =>
        LET r == gradeOut.res.value
        IN /\ DOMAIN r.criteria_scores = DOMAIN base_scores
           /\ \A c \in DOMAIN r.criteria_scores : r.criteria_scores[c] = 0
           /\ r.overall_score.num = 0
           /\ r.grade_letter = "F"

C13_Witness ==
    /\ GradedFlagged
    /\ gradeIn.cfg.fail_on_detection
    /\ gradeOut.det.value.confidence_score = 30
    /\ gradeIn.cfg.criteria = DefaultCriteria
    /\ ~gradeIn.sub.late_submission

\* The share of a base score that the detection penalty leaves, in hundredths.
KeptShare(conf) == IF conf <= 50 THEN 100 - conf ELSE 50

\* C14: with a present, flagged detection result and fail_on_detection not
\* set, every criterion score of a submission that is not late is its base
\* score times (1 - min(0.5, confidence)), so at least half of the base score
\* (base 80: confidence 0.3 gives 56, confidence 0.9 gives 40); for a late
\* submission the late factor multiplies that value.
C14_CappedLinearPenalty ==
    (GradedFlagged /\ ~gradeIn.cfg.fail_on_detection) =>
        LET r == gradeOut.res.value
            conf == gradeOut.det.value.confidence_score
            late == IF gradeIn.sub.late_submission
                    THEN 100 - gradeIn.cfg.late_penalty ELSE 100
        IN /\ \A c \in DOMAIN base_scores :
                 /\ r.criteria_scores[c] = base_scores[c] * KeptShare(conf) * late
                 /\ 2 * r.criteria_scores[c] >= base_scores[c] * 100 * late
           /\ ~gradeIn.sub.late_submission =>
                 /\ conf = 30 => r.criteria_scores["creativity"] = 56 * Scale
                 /\ conf = 90 => r.criteria_scores["creativity"] = 40 * Scale

C14_Witness ==
    /\ GradedFlagged
    /\ ~gradeIn.cfg.fail_on_detection
    /\ ~gradeIn.sub.late_submission
    /\ gradeOut.det.value.confidence_score = 90
    /\ gradeOut.res.value.criteria_scores["creativity"] = 40 * Scale

\* LOW < MEDIUM < HIGH < CRITICAL
RiskRank(level) ==
    CASE level = "LOW" -> 0
      [] level = "MEDIUM" -> 1
      [] level = "HIGH" -> 2
      [] level = "CRITICAL" -> 3

\* C19: the risk level of a present detection result is CRITICAL from
\* confidence 0.9, HIGH from 0.8, MEDIUM from 0.6 and LOW below, a function of
\* the confidence alone that never decreases when the confidence grows.
C19_RiskLevelFromConfidence ==
    (gradeOut.stage # "input" /\ gradeOut.det.value.present) =>
        LET conf == gradeOut.det.value.confidence_score
            risk == gradeOut.det.value.risk_level
        IN /\ conf = gradeIn.file.confidenceScore
           /\ risk = "CRITICAL" <=> conf >= 90
           /\ risk = "HIGH" <=> (conf >= 80 /\ conf < 90)
           /\ risk = "MEDIUM" <=> (conf >= 60 /\ conf < 80)
           /\ risk = "LOW" <=> conf < 60
           /\ \A f \in GradeFiles : (f.exists /\ f.parses) =>
                 LET other == run_ai_detection(gradeIn.cfg, "returned", f).value
                 IN /\ other.confidence_score <= conf =>
                        RiskRank(other.risk_level) <= RiskRank(risk)
                    /\ other.confidence_score = conf => other.risk_level = risk

C19_Witness ==
    /\ gradeOut.stage = "detected"
    /\ gradeOut.det.value.present
    /\ gradeOut.det.value.confidence_score = 90
    /\ gradeOut.det.value.risk_level = "CRITICAL"
    /\ ~gradeOut.det.value.is_ai_generated

\* The call has returned a calculated grade.
Graded == gradeOut.stage = "graded" /\ ~gradeOut.res.failed

\* The configured weight of a criterion, 0 when the table lacks it.
WeightOf(cfg, c) == IF c \in DOMAIN cfg.criteria THEN cfg.criteria[c] ELSE 0

\* C24: the overall score is the sum over the rubric criteria of criterion
\* score times configured weight (0 for a criterion the weight table lacks)
\* divided by the sum of all configured weights, those of criteria without a
\* score included.
C24_WeightedMean ==
    Graded =>
        LET r == gradeOut.res.value
            cfg == gradeIn.cfg
        IN /\ DOMAIN cfg.criteria \subseteq
                 {"correctness", "code_quality", "documentation", "testing",
                  "creativity", "style"}
           /\ r.overall_score.num =
                 r.criteria_scores["correctness"] * WeightOf(cfg, "correctness")
                 + r.criteria_scores["code_quality"] * WeightOf(cfg, "code_quality")
                 + r.criteria_scores["documentation"] * WeightOf(cfg, "documentation")
                 + r.criteria_scores["testing"] * WeightOf(cfg, "testing")
                 + r.criteria_scores["creativity"] * WeightOf(cfg, "creativity")
           /\ r.overall_score.den =
                 Scale * (WeightOf(cfg, "correctness") + WeightOf(cfg, "code_quality")
                          + WeightOf(cfg, "documentation") + WeightOf(cfg, "testing")
                          + WeightOf(cfg, "creativity") + WeightOf(cfg, "style"))
           /\ (cfg.criteria = PartialCriteria /\ ~gradeIn.sub.late_submission
                  /\ ~(gradeOut.det.value.present
                          /\ gradeOut.det.value.is_ai_generated)) =>
                 /\ r.overall_score.num = (85 * 3 + 78 * 1) * Scale
                 /\ r.overall_score.den = (3 + 1 + 4) * Scale

C24_Witness ==
    /\ Graded
    /\ gradeIn.cfg.criteria = PartialCriteria
    /\ ~gradeIn.sub.late_submission
    /\ ~gradeOut.det.value.present
    /\ gradeOut.res.value.overall_score.den = 8 * Scale

\* The detection results that carry no flag: none, or an unflagged one of
\* any drawn confidence.
UnflaggedDetections ==
    { None } \cup { AIDetectionResult(Report(FALSE, c)) : c \in GradeConfidences }

\* The fields of a result that the penalty and the flags decide.
Verdict(r) ==
    [criteria_scores |-> r.criteria_scores,
     overall_score |-> r.overall_score,
     grade_letter |-> r.grade_letter,
     academic_integrity_flag |-> r.academic_integrity_flag,
     requires_manual_review |-> r.requires_manual_review]

\* C29: penalty and flags depend on the detector's verdict only: the
\* criterion scores, overall score, letter grade, integrity flag and
\* manual-review flag of a submission whose detection result is absent or
\* unflagged are those of the same submission with any other absent or
\* unflagged detection result, whatever the confidence and risk level.
C29_OnlyTheVerdictCounts ==
    (/\ gradeOut.stage = "graded"
     /\ gradeOut.det.value \in UnflaggedDetections) =>
        /\ \A other \in UnflaggedDetections :
              Verdict(process_submission(gradeIn.cfg, gradeIn.sub,
                         [raised |-> FALSE, value |-> other],
                         gradeIn.fault).value)
                 = Verdict(gradeOut.res.value)
        /\ ~gradeOut.res.value.academic_integrity_flag
        /\ ~gradeOut.res.failed =>
              /\ ~gradeOut.res.value.requires_manual_review
              /\ \A c \in DOMAIN base_scores :
                    gradeOut.res.value.criteria_scores[c] =
                       base_scores[c] * 100 * LateFactor(gradeIn.cfg, gradeIn.sub)

C29_Witness ==
    /\ Graded
    /\ gradeOut.det.value.present
    /\ ~gradeOut.det.value.is_ai_generated
    /\ gradeOut.det.value.confidence_score = 90
    /\ gradeOut.det.value.risk_level = "CRITICAL"
    /\ ~gradeIn.sub.late_submission
    /\ gradeOut.res.value.criteria_scores["creativity"] = 80 * Scale

----------------------------------------------------------------------------
(* Properties of the tasks and the reports, under Spec                     *)

\* The states a task may move to from a state.
Successors(state) ==
    CASE state = "NoTask" -> {"Discovered"}
      [] state = "Discovered" -> {"Detecting"}
      [] state = "Detecting" -> {"Grading"}
      [] state = "Grading" -> {"Completed", "Failed"}
      [] OTHER -> {}

\* C21: the state of each submission only advances along Discovered,
\* Detecting, Grading, then Completed or Failed: grading starts only from
\* the end of its own detection step, a terminal state is never left, no
\* state is entered again, and the detector is invoked at most once per
\* submission.
C21_TaskStatesOnlyAdvance ==
    /\ [][\A s \in Dirs :
            /\ st'[s] # st[s] => st'[s] \in Successors(st[s])
            /\ (st[s] # "Grading" /\ st'[s] = "Grading") =>
                  /\ st[s] = "Detecting"
                  /\ outcome'[s] # "none"
            /\ invoked'[s] >= invoked[s]]_vars
    /\ [](\A s \in Dirs :
            /\ invoked[s] <= 1
            /\ gradeCalls[s] <= 1
            /\ st[s] \in {"NoTask", "Discovered", "Detecting"} =>
                  gradeCalls[s] = 0)

C21_Witness ==
    \E s, t \in Dirs :
        /\ st[s] = "Completed" /\ outcome[s] = "timeout" /\ invoked[s] = 1
        /\ st[t] = "Failed" /\ outcome[t] = "no_output" /\ invoked[t] = 1

\* Some report artifact exists or report synthesis is under way.
ReportsBegun ==
    \/ pc \in {"reports", "feedback", "summary", "csv", "integrity", "finish"}
    \/ called # {}
    \/ feedbackFiles # {}
    \/ summary.written \/ csv.written \/ integrity.written

\* C22: report synthesis starts only after the task of every submission is
\* Completed or Failed: while a report is generated or exists no worker is
\* detecting or grading, and the result collection the reports are made
\* from has an entry for every submission.
C22_ReportsAfterAllTasks ==
    ReportsBegun =>
        /\ Active = {}
        /\ \A s \in IdsOf(submissions) : s \in Terminal
        /\ IdsOf(results) = IdsOf(submissions)
        /\ Len(results) = Len(submissions)

C22_Witness ==
    /\ summary.written
    /\ Len(submissions) = MaxSubs
    /\ \E s, t \in Dirs : st[s] = "Completed" /\ st[t] = "Failed"

\* C23: run_ai_detection returns a present detection result for a
\* submission only when the detector process invoked for it in this run
\* wrote the scratch file; when the process ends without writing output the
\* result is absent, also when a scratch file of an earlier run exists.
C23_DetectionOnlyFromThisRun ==
    \A s \in Dirs :
        /\ det[s].present => (invoked[s] > 0 /\ outcome[s] = "wrote")
        /\ outcome[s] = "no_output" => ~det[s].present

\* C25: the resolved configuration is never modified and, after discovery,
\* neither is a submission: every detection, grading, collecting and report
\* step leaves both unchanged, a future is set only by the task of its own
\* submission, with a result for that submission, and the result list
\* changes only when the orchestrator collects.
C25_ConfigAndSubmissionsFrozen ==
    [][/\ config' = config
       /\ pc # "start" => submissions' = submissions
       /\ \A s \in Dirs : fut'[s] # fut[s] =>
             /\ st[s] \in {"Detecting", "Grading"}
             /\ st'[s] \in {"Completed", "Failed"}
             /\ fut'[s].set
             /\ ~fut'[s].raised => fut'[s].value.student_id = s
             /\ \A t \in Dirs \ {s} : fut'[t] = fut[t]
             /\ results' = results
       /\ results' # results => (pc = "collect" /\ fut' = fut)]_vars

C25_Witness ==
    /\ pc = "done"
    /\ exit = "ok"
    /\ csv.written
    /\ Len(submissions) = MaxSubs
    /\ \E s \in Dirs : st[s] = "Completed" /\ det[s].present
    /\ \E j \in Indices(results) :
          submissions[j].student_id # results[j].student_id

\* C26: in every GradingResult a task produces or the returned list holds,
\* the integrity flag implies a present detection result whose verdict is
\* flagged, so the flagged-student list of the class summary and the
\* integrity report never read a field of an absent detection result.
C26_FlagCarriesDetection ==
    /\ \A r \in Produced :
          r.academic_integrity_flag =>
             r.ai_detection.present /\ r.ai_detection.is_ai_generated
    /\ \A j \in Indices(results) :
          results[j].academic_integrity_flag =>
             results[j].ai_detection.present
                /\ results[j].ai_detection.is_ai_generated
    /\ ~DereferencesNone(results)
    /\ integrity.written =>
          \A i \in Indices(integrity.sections) :
             \E j \in Indices(results) :
                /\ results[j].student_id = integrity.sections[i]
                /\ results[j].ai_detection.present

C26_Witness ==
    /\ integrity.written
    /\ summary.written
    /\ Len(summary.alerts) = 1
    /\ \E j \in Indices(results) :
          /\ results[j].ai_detection.present
          /\ ~results[j].ai_detection.is_ai_generated
          /\ ~results[j].academic_integrity_flag

\* The submissions whose grading raised after the detector had flagged them.
FailedAfterFlag ==
    { s \in Dirs : st[s] = "Failed" /\ det[s].present /\ det[s].is_ai_generated }

\* The student ids a sequence of ids names.
Range(seq) == { seq[i] : i \in 1..Len(seq) }

\* C27: the synthetic failing result carries no detection result, no
\* integrity flag and no criterion score, also when the detector had flagged
\* the submission before grading raised; the class summary counts it under
\* manual review and not under integrity alerts, and the integrity report
\* has no section for it.
C27_FailingResultUnflagged ==
    /\ \A s \in Dirs : st[s] = "Failed" =>
          /\ fut[s].value.ai_detection = None
          /\ ~fut[s].value.academic_integrity_flag
          /\ DOMAIN fut[s].value.criteria_scores = {}
          /\ fut[s].value.requires_manual_review
    /\ summary.written =>
          /\ \A s \in Dirs : st[s] = "Failed" => s \notin Range(summary.alerts)
          /\ summary.ai_flagged =
                Cardinality({ s \in Dirs : st[s] = "Completed"
                                /\ det[s].present /\ det[s].is_ai_generated })
          /\ summary.manual_review_needed =
                Cardinality({ s \in Dirs : st[s] = "Failed" }) + summary.ai_flagged
    /\ integrity.written =>
          \A s \in Dirs : st[s] = "Failed" => s \notin Range(integrity.sections)

C27_Witness ==
    /\ FailedAfterFlag # {}
    /\ summary.written
    /\ integrity.written
    /\ summary.ai_flagged = 1
    /\ summary.manual_review_needed = 2

\* C28: when the configured weights sum to zero, grade calculation fails for
\* every submission: each gets the synthetic failing result (score 0, grade
\* F, manual review required), the returned list has one entry per
\* submission, and no exception leaves process_all_submissions.
C28_ZeroWeightsFailEverySubmission ==
    TotalWeight(config) = 0 =>
        /\ \A s \in Dirs :
              /\ st[s] # "Completed"
              /\ fut[s].set =>
                    /\ ~fut[s].raised
                    /\ fut[s].value = FailingResult(SubOf(s))
        /\ pc = "collect" => exit = "running"
        /\ exit = "raised" => (~rootExists \/ ioFault)
        /\ ProcessingReturned =>
              /\ Len(results) = Len(submissions)
              /\ IdsOf(results) = IdsOf(submissions)
              /\ \A j \in Indices(results) :
                    /\ results[j].overall_score.num = 0
                    /\ results[j].grade_letter = "F"
                    /\ results[j].requires_manual_review

C28_Witness ==
    /\ TotalWeight(config) = 0
    /\ pc = "done"
    /\ exit = "ok"
    /\ Len(results) = MaxSubs
    /\ csv.written
    /\ \E s \in Dirs : det[s].present

----------------------------------------------------------------------------
(* Properties of one function call, under FunctionSpec                     *)

\* The grade of each breakpoint.
GradeOfBreakpoint(b) ==
    CASE b = 97 -> "A+" [] b = 93 -> "A" [] b = 90 -> "A-"
      [] b = 87 -> "B+" [] b = 83 -> "B" [] b = 80 -> "B-"
      [] b = 77 -> "C+" [] b = 73 -> "C" [] b = 70 -> "C-"
      [] b = 67 -> "D+" [] b = 63 -> "D" [] b = 60 -> "D-"

\* F, D-, ..., A+ in rising order
GradeRank(g) ==
    IF g = "F" THEN 0
    ELSE Cardinality({ b \in BreakpointValues :
            \E c \in BreakpointValues : c >= b /\ GradeOfBreakpoint(c) = g })

\* The grade of the highest breakpoint not above n hundredths, else F.
BracketGrade(n) ==
    LET below == { b \in BreakpointValues : 100 * b <= n }
    IN IF below = {} THEN "F"
       ELSE GradeOfBreakpoint(CHOOSE b \in below : \A c \in below : c <= b)

\* C15: every score gets a letter grade, the grade of the highest breakpoint
\* not above it and F below 60 (96.99 is A, 97.0 is A+, 59.99 is F, 60.0 is
\* D-), and a higher score never gets a lower grade.
C15_LetterGradeBrackets ==
    (fnIn.fn = "letter" /\ fnOut.stage = "done") =>
        LET n == fnIn.score.num
        IN /\ fnOut.grade \in Grades
           /\ fnOut.grade = BracketGrade(n)
           /\ n = 9699 => fnOut.grade = "A"
           /\ n = 9700 => fnOut.grade = "A+"
           /\ n = 5999 => fnOut.grade = "F"
           /\ n = 6000 => fnOut.grade = "D-"
           /\ \A m \in ScoreSamples : m <= n =>
                 GradeRank(score_to_letter_grade([num |-> m, den |-> 100]))
                    <= GradeRank(fnOut.grade)

C15_Witness ==
    /\ fnIn.fn = "letter"
    /\ fnOut.stage = "done"
    /\ fnIn.score.num = 9699
    /\ fnOut.grade = "A"

\* C12: the class summary counts as integrity alerts the results with the
\* integrity flag and as manual reviews the results that require one; its
\* histogram has all thirteen letter grades, each with the number of results
\* of that grade, and sums to the number of results; with no result the
\* average and every percentage are 0 and nothing is divided by zero.
C12_SummaryStatistics ==
    (fnIn.fn = "summary" /\ fnOut.stage = "done") =>
        LET res == fnIn.results
            sm == fnOut.summary
        IN /\ ~fnOut.raised
           /\ sm.total_students = Len(res)
           /\ sm.ai_flagged =
                 Cardinality({ i \in 1..Len(res) : res[i].academic_integrity_flag })
           /\ sm.manual_review_needed =
                 Cardinality({ i \in 1..Len(res) : res[i].requires_manual_review })
           /\ DOMAIN sm.grade_distribution = Grades
           /\ Cardinality(DOMAIN sm.grade_distribution) = 13
           /\ \A g \in Grades :
                 /\ sm.grade_distribution[g] =
                       Cardinality({ i \in 1..Len(res) : res[i].grade_letter = g })
                 /\ sm.percentage[g].den > 0
                 /\ sm.percentage[g].num * Len(res) =
                       100 * sm.grade_distribution[g] * sm.percentage[g].den
           /\ SumOver(sm.grade_distribution, Grades) = Len(res)
           /\ sm.avg_score.den > 0
           /\ Len(res) = 0 =>
                 /\ sm.avg_score.num = 0
                 /\ \A g \in Grades : sm.percentage[g].num = 0

C12_Witness ==
    /\ fnIn.fn = "summary"
    /\ fnOut.stage = "done"
    /\ Len(fnIn.results) = MaxSubs
    /\ fnOut.summary.ai_flagged = 1
    /\ fnOut.summary.manual_review_needed = 2
    /\ fnOut.summary.grade_distribution["F"] = 2

----------------------------------------------------------------------------
(* Properties of the resolved configuration, under ConfigSpec              *)

\* out is base with update merged in: a key of update whose values in base
\* and in update are both mappings holds their merge, any other key of update
\* holds update's value, and the other keys of base hold base's value.
RECURSIVE IsMergeOf(_, _, _)
IsMergeOf(out, base, update) ==
    /\ DOMAIN out = DOMAIN base \cup DOMAIN update
    /\ \A k \in DOMAIN update :
          IF k \in DOMAIN base /\ ~base[k].leaf /\ ~update[k].leaf
          THEN /\ ~out[k].leaf
               /\ IsMergeOf(out[k].kids, base[k].kids, update[k].kids)
          ELSE out[k] = update[k]
    /\ \A k \in DOMAIN base \ DOMAIN update : out[k] = base[k]

\* The two mappings a finished call has merged.
MergedBase == IF fnIn.fn = "merge" THEN fnIn.base ELSE default_config
MergedUpdate == IF fnIn.fn = "merge" THEN fnIn.update ELSE fnIn.doc.value.kids

Merged ==
    /\ fnOut.stage = "done"
    /\ \/ fnIn.fn = "merge"
       \/ fnIn.fn = "load" /\ fnIn.doc.kind = "json" /\ ~fnIn.doc.value.leaf

\* C16: the deep merge of an override tree onto a default tree merges
\* recursively where both values at a key are mappings, lets the override
\* value replace the default one otherwise, and keeps the default value of
\* keys absent from the override; {a:{x:1,y:2}} merged with {a:{y:9,z:3}}
\* is {a:{x:1,y:9,z:3}}.
C16_DeepMerge ==
    Merged =>
        /\ IsMergeOf(fnOut.config, MergedBase, MergedUpdate)
        /\ (fnIn.fn = "merge" /\ fnIn.base = ExampleBase
                              /\ fnIn.update = ExampleUpdate)
              => fnOut.config =
                    [a |-> Node([x |-> Leaf("1"), y |-> Leaf("9"),
                                 z |-> Leaf("3")])]

C16_Witness ==
    /\ fnIn.fn = "merge"
    /\ fnOut.stage = "done"
    /\ fnIn.base = ExampleBase
    /\ fnIn.update = ExampleUpdate
    /\ DOMAIN fnOut.config["a"].kids = {"x", "y", "z"}

\* out has every key of def at every nesting level.
RECURSIVE ContainsKeys(_, _)
ContainsKeys(out, def) ==
    \A k \in DOMAIN def :
        /\ k \in DOMAIN out
        /\ ~def[k].leaf =>
              /\ ~out[k].leaf
              /\ ContainsKeys(out[k].kids, def[k].kids)

\* out has every value update provides.
RECURSIVE Reflects(_, _)
Reflects(out, update) ==
    \A k \in DOMAIN update :
        /\ k \in DOMAIN out
        /\ IF update[k].leaf THEN out[k] = update[k]
           ELSE ~out[k].leaf /\ Reflects(out[k].kids, update[k].kids)

\* The mapping an override document provides; nothing when it is missing,
\* unparseable or not a mapping.
Provided(doc) ==
    IF doc.kind = "json" /\ ~doc.value.leaf THEN doc.value.kids ELSE EmptyDict

Resolved == fnIn.fn = "load" /\ fnOut.stage = "done"

\* C17 as stated: for every override document the resolved configuration
\* has every key of the default tree at every nesting level, and the values
\* the override provides.
C17_EveryDefaultKey ==
    Resolved =>
        /\ ContainsKeys(fnOut.config, default_config)
        /\ Reflects(fnOut.config, Provided(fnIn.doc))

\* out has every key of def, and below a key whose default is a mapping
\* every key again, unless update gives that key a value that is not a
\* mapping, which then stands in its place.
RECURSIVE Covers(_, _, _)
Covers(out, def, update) ==
    \A k \in DOMAIN def :
        /\ k \in DOMAIN out
        /\ ~def[k].leaf =>
              IF k \in DOMAIN update /\ update[k].leaf
              THEN out[k] = update[k]
              ELSE /\ ~out[k].leaf
                   /\ Covers(out[k].kids, def[k].kids,
                             IF k \in DOMAIN update THEN update[k].kids
                             ELSE EmptyDict)

\* C17, amended: for every override document the resolved configuration has
\* every top-level key of the default tree and every key of each nested
\* default mapping, except below a place where the override gives a value
\* that is not a mapping, which then stands there; it has the values the
\* override provides, and is the default tree when the document is missing,
\* unparseable or not a mapping.
C17_DefaultKeysUnlessReplaced ==
    Resolved =>
        /\ Covers(fnOut.config, default_config, Provided(fnIn.doc))
        /\ Reflects(fnOut.config, Provided(fnIn.doc))
        /\ Provided(fnIn.doc) = EmptyDict => fnOut.config = default_config

C17_Witness ==
    /\ Resolved
    /\ fnIn.doc.kind = "json"
    /\ ~fnIn.doc.value.leaf
    /\ "grading" \in DOMAIN fnIn.doc.value.kids
    /\ ~fnIn.doc.value.kids["grading"].leaf
    /\ "criteria" \in DOMAIN fnIn.doc.value.kids["grading"].kids
    /\ fnOut.config["grading"].kids["criteria"] = Leaf("9")
    /\ fnOut.config["grading"].kids["max_score"] = Leaf("100")
    /\ DOMAIN fnOut.config =
          DOMAIN default_config \cup DOMAIN fnIn.doc.value.kids

----------------------------------------------------------------------------
(* Termination of the worker pool, under ProcessingSpec                    *)

\* C30: when every detector invocation returns or times out and the workers
\* are scheduled fairly, every discovered submission reaches Completed or
\* Failed and process_all_submissions returns, whatever the number of
\* workers and of submissions.
C30_EveryTaskEnds ==
    /\ \A s \in Dirs :
          (st[s] \in {"Discovered", "Detecting", "Grading"})
             ~> (st[s] \in {"Completed", "Failed"})
    /\ (pc = "collect") ~>
          (pc = "reports" /\ \A s \in IdsOf(submissions) :
                                st[s] \in {"Completed", "Failed"})

C30_Witness ==
    /\ pc = "reports"
    /\ Len(submissions) = MaxSubs
    /\ config.parallel_workers = 1
    /\ \E s, t \in Dirs : outcome[s] = "timeout" /\ st[t] = "Failed"

====
